---- MODULE Spec2Model ----
(***************************************************************************)
(* KeyboardHistory: the replay scheduler (EventReplay), the event store    *)
(* (EventStore), the key capture state machine (EventCapture) and the      *)
(* session coordinator (KeyboardHistory), together with the host's one-shot *)
(* timers and clock.                                                        *)
(*                                                                         *)
(* Numbers are fixed-point: a finite number n stands for n / TicksPerMs    *)
(* milliseconds.  Strings are sequences of one-character strings, so that  *)
(* trim(), length and concatenation are computed, not assumed.             *)
(*                                                                         *)
(* The timer callback of scheduleNextEvent runs the observers of the       *)
(* notification in the middle of its body (document.dispatchEvent is       *)
(* synchronous), and an observer may call back into the scheduler.  The    *)
(* callback is therefore three steps: TimerFire (up to and including the   *)
(* dispatch), the observer's calls, TimerReturn (the rest of the body).    *)
(* While a callback is executing nothing else runs (single thread).        *)
(***************************************************************************)
EXTENDS Integers, Sequences, FiniteSets, TLC

\* ------------------------------------------------------------------ bounds
\* Clock resolution: the clock counts 2^ClockBits ticks per millisecond.
ClockBits == 1
TicksPerMs == 2 ^ ClockBits
\* The clock advances by itself (Tick) up to this instant; timers still fire after it.
MaxTime == 1
\* The same for the behaviours of recording on its own.
MaxSessionTime == 2
\* Number of replay sessions started in one behaviour.
MaxReplays == 2
\* Number of key signals delivered in one behaviour.
MaxSignals == 4
\* The same for the behaviours of the session coordinator with replay.
MaxReplaySignals == 3
\* addEvent calls accepted between two clear() of a store used directly
MaxInserts == 3
\* Length up to which a caller grows the array it gave to replay().
MaxArrayLen == 3

\* ------------------------------------------------------------------ strings
WhiteSpace == {" ", "\t", "\n"}

RECURSIVE TrimStart(_)
TrimStart(s) ==
  IF s # <<>> /\ Head(s) \in WhiteSpace THEN TrimStart(Tail(s)) ELSE s

RECURSIVE TrimEnd(_)
TrimEnd(s) ==
  IF s # <<>> /\ s[Len(s)] \in WhiteSpace THEN TrimEnd(SubSeq(s, 1, Len(s) - 1)) ELSE s

\* String.prototype.trim
Trim(s) == TrimEnd(TrimStart(s))

sKeyA == <<"K", "e", "y", "A">>
sKeyB == <<"K", "e", "y", "B">>
sSpace == <<"S", "p", "a", "c", "e">>
sEnter == <<"E", "n", "t", "e", "r">>
sTab == <<"T", "a", "b">>
sEscape == <<"E", "s", "c", "a", "p", "e">>
sBackspace == <<"B", "a", "c", "k", "s", "p", "a", "c", "e">>
sDelete == <<"D", "e", "l", "e", "t", "e">>
sUnidentified == <<"U", "n", "i", "d", "e", "n", "t", "i", "f", "i", "e", "d">>
sDefaultChannel ==
  <<"k", "e", "y", "b", "o", "a", "r", "d", "H", "i", "s", "t", "o", "r", "y",
    "R", "e", "p", "l", "a", "y">>
sCustomChannel == <<"m", "y">>

\* ------------------------------------------------------------------ JS values
\* t is the result of typeof; k tells null from an object and the kinds of number.
Undef == [t |-> "undefined", k |-> "", n |-> 0, s |-> <<>>]
NullV == [t |-> "object", k |-> "null", n |-> 0, s |-> <<>>]
Str(s) == [t |-> "string", k |-> "", n |-> 0, s |-> s]
Num(n) == [t |-> "number", k |-> "fin", n |-> n, s |-> <<>>]
NaN == [t |-> "number", k |-> "nan", n |-> 0, s |-> <<>>]
PosInf == [t |-> "number", k |-> "inf", n |-> 0, s |-> <<>>]
NegInf == [t |-> "number", k |-> "ninf", n |-> 0, s |-> <<>>]

IsFinite(v) == v.t = "number" /\ v.k = "fin"

\* v < 0 for a value whose typeof is number (NaN < 0 and Infinity < 0 are false)
JsLtZero(v) == (v.k = "fin" /\ v.n < 0) \/ v.k = "ninf"

\* v <= 0 for a value whose typeof is number
JsLeZero(v) == (v.k = "fin" /\ v.n <= 0) \/ v.k = "ninf"

\* a - b for two numbers
JsSub(a, b) ==
  IF a.k = "nan" \/ b.k = "nan" THEN NaN
  ELSE IF a.k = "fin" /\ b.k = "fin" THEN Num(a.n - b.n)
  ELSE IF a.k = b.k THEN NaN
  ELSE IF a.k = "inf" \/ b.k = "ninf" THEN PosInf
  ELSE NegInf

\* An element of an events array: an object with the four properties, null, or a primitive.
Obj(key, code, duration, timestamp) ==
  [t |-> "object", k |-> "obj", key |-> key, code |-> code,
   duration |-> duration, timestamp |-> timestamp]
NullElem ==
  [t |-> "object", k |-> "null", key |-> Undef, code |-> Undef,
   duration |-> Undef, timestamp |-> Undef]
NumElem ==
  [t |-> "number", k |-> "prim", key |-> Undef, code |-> Undef,
   duration |-> Undef, timestamp |-> Undef]

\* The argument of replay(events?)
ArgUndefined == [t |-> "undefined", a |-> <<>>]
ArgNull == [t |-> "null", a |-> <<>>]
ArgNumber == [t |-> "number", a |-> <<>>]
ArgArray(a) == [t |-> "array", a |-> a]

\* ------------------------------------------------------------------ EventReplay
\* One iteration of the loop of validateEvents: the rule the element violates.
ElemError(e) ==
  IF e.k = "null" \/ e.t # "object" THEN "object"
  ELSE IF e.key.t # "string" THEN "key"
  ELSE IF e.code.t # "string" THEN "code"
  ELSE IF e.duration.t # "number" \/ JsLtZero(e.duration) THEN "duration"
  ELSE IF e.timestamp.t # "number" \/ JsLtZero(e.timestamp) THEN "timestamp"
  ELSE IF Trim(e.key.s) = <<>> THEN "emptyKey"
  ELSE IF Trim(e.code.s) = <<>> THEN "emptyCode"
  ELSE "ok"

\* validateEvents: the first element (0-based index) that violates a rule
ValidateEvents(events) ==
  LET bad == {i \in 1..Len(events) : ElemError(events[i]) # "ok"}
      first == CHOOSE i \in bad : \A j \in bad : i <= j
  IN IF bad = {} THEN [rule |-> "ok", index |-> -1]
     ELSE [rule |-> ElemError(events[first]), index |-> first - 1]

IdleSession ==
  [isReplaying |-> FALSE, currentIndex |-> 0, startTime |-> NullV, timeoutIds |-> <<>>]


\* ------------------------------------------------------------------ state
VARIABLES
  now,            \* the host clock (performance.now()), in ticks
  config,         \* KeyboardHistoryConfig given to the constructors
  replaySession,  \* EventReplay.replaySession
  storedEvents,   \* EventReplay.storedEvents
  timers,         \* the host's live one-shot timers created by scheduleNextEvent
  nextTimerId,    \* the handle the next setTimeout returns
  cb,             \* the timer callback that is executing (inside dispatchEvent), or NoCb
  emitted,        \* the notifications dispatched on the document, oldest first
  starts,         \* one record per replay session started (history)
  ret,            \* outcome of the last call of the public API: what it threw
  store,          \* EventStore.events
  session,        \* KeyboardHistory.session
  capture,        \* EventCapture fields
  listeners,      \* number of keydown/keyup subscriptions on the document
  signals,        \* number of key signals delivered so far
  lastSignal,     \* the key signal the host delivered last
  sunk,           \* the calls of the sink given by the last start(), oldest first
  inserted,       \* the events addEvent accepted since the last clear(), oldest first
  returned,       \* the array the last getAllEvents() returned, as its caller holds it
  pendingDowns    \* the identities (normalized key, code) of the down-signals the capture
                  \* took and no up-signal of the same identity or stop has followed

replayVars == <<replaySession, storedEvents, timers, nextTimerId, cb, emitted, starts>>
khVars == <<store, session, capture, listeners, signals, lastSignal, sunk, inserted,
           returned, pendingDowns>>
vars == <<now, config, ret, replayVars, khVars>>

NoCb == [on |-> FALSE, gen |-> 0, events |-> <<>>, idx |-> 0, id |-> 0,
         stopped |-> FALSE, restarted |-> FALSE]

NoError == [err |-> "none", index |-> -1, rule |-> "ok"]
\* The outcome of a call: the error it threw (err, with the index and the rule of a
\* validation error), whether an observer made it (inCb), whether a replay was active
\* when it was made, and for replay() the kind of argument and the sequence to replay.
Outcome(op, e, argT, seq) ==
  [op |-> op, err |-> e.err, index |-> e.index, rule |-> e.rule, inCb |-> cb.on,
   wasReplaying |-> replaySession.isReplaying, argT |-> argT, seq |-> seq]
Returned(op) == Outcome(op, NoError, "", <<>>)
Threw(op, e) == Outcome(op, e, "", <<>>)

\* The history of the replay sessions: starts[g] tells the sequence replay() validated
\* (arr), the instant of the call (at), whether an observer made it (inCb), the number of
\* notifications emitted before it (logPos), whether the session before it was stopped
\* by stopReplay() (afterStop), and, once stopReplay() has stopped session g, the number
\* of its notifications emitted until then (stoppedK, else -1) and the index of the
\* event of g whose observer called it (stoppedIn, else -1).
\* gen is the replay session that was started last (0: none yet).
gen == Len(starts)

\* number of notifications emitted so far for the replay session g
EmittedOf(g) == Cardinality({j \in 1..Len(emitted) : emitted[j].gen = g})

\* ------------------------------------------------------------------ scheduler
\* setStoredEvents(events): events || []
SetStoredEvents(x) ==
  /\ cb = NoCb
  /\ storedEvents' = (IF x.t = "array" THEN x.a ELSE <<>>)
  /\ ret' = Returned("setStoredEvents")
  /\ UNCHANGED <<now, config, replaySession, timers, nextTimerId, cb, emitted, starts, khVars>>

\* replay(): the sequence that is replayed (lines 42-53)
EventsToReplay(arg, stored) == IF arg.t # "undefined" THEN arg.a ELSE stored

\* replay() that looks at its argument before it looks for a replay in progress
ReplayErrorArgFirst(rs, arg, stored) ==
  IF arg.t # "undefined" /\ arg.t # "array"
    THEN [err |-> "invalidInput", index |-> -1, rule |-> "ok"]
  ELSE IF rs.isReplaying THEN [err |-> "inProgress", index |-> -1, rule |-> "ok"]
  ELSE LET v == ValidateEvents(EventsToReplay(arg, stored))
       IN IF v.rule # "ok" THEN [err |-> "validation", index |-> v.index, rule |-> v.rule]
          ELSE NoError

\* replay() without the Array.isArray test: reading the length of null throws a
\* TypeError
ReplayErrorNoArrayCheck(rs, arg, stored) ==
  IF rs.isReplaying THEN [err |-> "inProgress", index |-> -1, rule |-> "ok"]
  ELSE IF arg.t # "undefined" /\ arg.t # "array"
    THEN [err |-> "typeError", index |-> -1, rule |-> "ok"]
  ELSE LET v == ValidateEvents(EventsToReplay(arg, stored))
       IN IF v.rule # "ok" THEN [err |-> "validation", index |-> v.index, rule |-> v.rule]
          ELSE NoError

\* replay() that rejects an empty sequence
ReplayErrorRejectsEmpty(rs, arg, stored) ==
  IF rs.isReplaying THEN [err |-> "inProgress", index |-> -1, rule |-> "ok"]
  ELSE IF arg.t # "undefined" /\ arg.t # "array"
    THEN [err |-> "invalidInput", index |-> -1, rule |-> "ok"]
  ELSE IF EventsToReplay(arg, stored) = <<>>
    THEN [err |-> "validation", index |-> 0, rule |-> "object"]
  ELSE LET v == ValidateEvents(EventsToReplay(arg, stored))
       IN IF v.rule # "ok" THEN [err |-> "validation", index |-> v.index, rule |-> v.rule]
          ELSE NoError

\* replay() that takes null for an omitted argument
ReplayErrorNullAsDefault(rs, arg, stored) ==
  IF rs.isReplaying THEN [err |-> "inProgress", index |-> -1, rule |-> "ok"]
  ELSE IF arg.t \notin {"undefined", "array", "null"}
    THEN [err |-> "invalidInput", index |-> -1, rule |-> "ok"]
  ELSE LET v == ValidateEvents(IF arg.t = "array" THEN arg.a ELSE stored)
       IN IF v.rule # "ok" THEN [err |-> "validation", index |-> v.index, rule |-> v.rule]
          ELSE NoError

\* replay(): the error it throws, if any (lines 38-56)
ReplayError(rs, arg, stored) ==
  IF rs.isReplaying THEN [err |-> "inProgress", index |-> -1, rule |-> "ok"]
  ELSE IF arg.t # "undefined" /\ arg.t # "array"
    THEN [err |-> "invalidInput", index |-> -1, rule |-> "ok"]
  ELSE LET v == ValidateEvents(EventsToReplay(arg, stored))
       IN IF v.rule # "ok" THEN [err |-> "validation", index |-> v.index, rule |-> v.rule]
          ELSE NoError

\* a delay measured from the start of the replay instead of from the previous event
DelayFromStart(rs, events, eventIndex) ==
  IF rs.startTime # NullV THEN events[eventIndex + 1].timestamp ELSE Num(0)

\* scheduleNextEvent: the delay of the timer of events[eventIndex] (lines 138-151)
Delay(rs, events, eventIndex) ==
  IF rs.startTime # NullV
    THEN IF eventIndex = 0 THEN events[1].timestamp
         ELSE JsSub(events[eventIndex + 1].timestamp, events[eventIndex].timestamp)
    ELSE Num(0)

\* setTimeout(cb, delay): the host runs the callback delay after the call; a delay that
\* is negative or not finite counts as 0. Timers are exact.
HostDelay(d) == IF IsFinite(d) /\ d.n > 0 THEN d.n ELSE 0

\* scheduleNextEvent(events, eventIndex) on session record rs, live timers tm, next handle
\* nid; g is the replay session whose chain this is. The result is the new
\* (session record, live timers, next handle).
ScheduleNextEvent(rs, tm, nid, events, eventIndex, g) ==
  IF ~rs.isReplaying \/ eventIndex >= Len(events)
    THEN [rs |-> IF rs.isReplaying THEN IdleSession ELSE rs, timers |-> tm, nid |-> nid]
    ELSE LET delay == Delay(rs, events, eventIndex)
             t == [id |-> nid, gen |-> g, events |-> events, idx |-> eventIndex,
                   currentEvent |-> events[eventIndex + 1],
                   delay |-> delay, setAt |-> now, due |-> now + HostDelay(delay)]
         IN [rs |-> [rs EXCEPT !.timeoutIds = Append(@, nid)],
             timers |-> tm \cup {t}, nid |-> nid + 1]

\* EventReplay.replay(arg) with the default sequence `stored` (lines 37-73)
ReplayCall(arg, stored) ==
  LET e == ReplayError(replaySession, arg, stored)
      events == EventsToReplay(arg, stored)
  IN IF e.err # "none"
       THEN /\ ret' = Outcome("replay", e, arg.t, events)
            /\ UNCHANGED <<replaySession, timers, nextTimerId, starts, cb>>
     ELSE IF Len(events) = 0
       THEN /\ ret' = Outcome("replay", NoError, arg.t, events)
            /\ UNCHANGED <<replaySession, timers, nextTimerId, starts, cb>>
     ELSE LET rs0 == [isReplaying |-> TRUE, currentIndex |-> 0,
                      startTime |-> Num(now), timeoutIds |-> <<>>]
              r == ScheduleNextEvent(rs0, timers, nextTimerId, events, 0, gen + 1)
          IN /\ gen < MaxReplays
             /\ replaySession' = r.rs
             /\ timers' = r.timers
             /\ nextTimerId' = r.nid
             /\ starts' = Append(starts,
                  [arr |-> events, at |-> now, inCb |-> cb.on, logPos |-> Len(emitted),
                   afterStop |-> (gen > 0 /\ starts[gen].stoppedK >= 0),
                   stoppedK |-> -1, stoppedIn |-> -1])
             /\ cb' = IF cb.on THEN [cb EXCEPT !.restarted = TRUE] ELSE cb
             /\ ret' = Outcome("replay", NoError, arg.t, events)

\* EventReplay.stopReplay() (lines 78-96)
StopReplayCall ==
  IF ~replaySession.isReplaying
    THEN /\ ret' = Returned("stopReplay")
         /\ UNCHANGED <<replaySession, timers, starts, cb>>
    ELSE /\ timers' = {t \in timers :
                         \A i \in 1..Len(replaySession.timeoutIds) :
                            replaySession.timeoutIds[i] # t.id}
         /\ replaySession' = IdleSession
         /\ starts' = [starts EXCEPT ![gen].stoppedK = EmittedOf(gen),
                                     ![gen].stoppedIn =
                                        IF cb.on /\ cb.gen = gen THEN cb.idx ELSE -1]
         /\ cb' = IF cb.on THEN [cb EXCEPT !.stopped = TRUE, !.restarted = FALSE] ELSE cb
         /\ ret' = Returned("stopReplay")

\* replay(arg) called from top-level code
Replay(arg) ==
  /\ cb = NoCb
  /\ ReplayCall(arg, storedEvents)
  /\ UNCHANGED <<now, config, storedEvents, emitted, khVars>>

\* stopReplay() called from top-level code
StopReplay ==
  /\ cb = NoCb
  /\ StopReplayCall
  /\ UNCHANGED <<now, config, storedEvents, nextTimerId, emitted, khVars>>

\* dispatchKeyEvent: the channel of the notification (line 218)
EventName(cfg) ==
  IF cfg.replayEventName.t = "string" /\ cfg.replayEventName.s # <<>>
    THEN cfg.replayEventName.s ELSE sDefaultChannel

\* dispatchKeyEvent: the notification for `event` (lines 216-236); g and idx tell the
\* replay session and the position of the event in its sequence, active tells whether
\* the scheduler is replaying while the observers run.
Notification(event, g, idx, rs) ==
  [channel |-> EventName(config), key |-> event.key, code |-> event.code,
   duration |-> event.duration, timestamp |-> event.timestamp,
   originalTimestamp |-> event.timestamp, replayTimestamp |-> now',
   gen |-> g, idx |-> idx, active |-> rs.isReplaying]

\* the host runs the timer that is due first (the older one of two due together)
FiresNext(t) ==
  \A u \in timers : t.due < u.due \/ (t.due = u.due /\ t.id <= u.id)

\* The timer callback up to the dispatch (lines 154-159): the handle leaves the pending
\* set and the notification reaches the observers.
TimerFire ==
  /\ cb = NoCb
  /\ \E t \in timers :
       /\ FiresNext(t)
       /\ now' = (IF t.due > now THEN t.due ELSE now)
       /\ timers' = timers \ {t}
       /\ replaySession' =
            [replaySession EXCEPT !.timeoutIds = SelectSeq(@, LAMBDA id : id # t.id)]
       /\ emitted' = Append(emitted,
            Notification(t.currentEvent, t.gen, t.idx, replaySession))
       /\ cb' = [on |-> TRUE, gen |-> t.gen, events |-> t.events, idx |-> t.idx,
                 id |-> t.id, stopped |-> FALSE, restarted |-> FALSE]
  /\ UNCHANGED <<config, ret, storedEvents, nextTimerId, starts, khVars>>

\* an observer of the notification calls stopReplay()
ObserverStopReplay ==
  /\ cb.on
  /\ StopReplayCall
  /\ UNCHANGED <<now, config, storedEvents, nextTimerId, emitted, khVars>>

\* an observer of the notification calls replay(arg)
ObserverReplay(arg) ==
  /\ cb.on
  /\ ReplayCall(arg, storedEvents)
  /\ UNCHANGED <<now, config, storedEvents, emitted, khVars>>

\* The rest of the timer callback (lines 161-165): advance the cursor of the current
\* session record and schedule the next event of this callback's sequence.
TimerReturn ==
  /\ cb.on
  /\ LET rs1 == [replaySession EXCEPT !.currentIndex = cb.idx + 1]
         r == ScheduleNextEvent(rs1, timers, nextTimerId, cb.events, cb.idx + 1, cb.gen)
     IN /\ replaySession' = r.rs
        /\ timers' = r.timers
        /\ nextTimerId' = r.nid
  /\ cb' = NoCb
  /\ UNCHANGED <<now, config, ret, storedEvents, emitted, starts, khVars>>

\* The caller of replay(events) changes the array it passed while the replay is active:
\* pop(), push(obj), or the assignment of obj to the last element. The timer callbacks
\* hold that array (events), and the event of a pending timer (currentEvent) was read
\* from it when the timer was set.
CallerMutatesSequence(edit, obj) ==
  /\ cb = NoCb
  /\ replaySession.isReplaying
  /\ \E t \in timers :
       /\ t.gen = gen
       /\ LET events == t.events
              new == CASE edit = "pop" -> SubSeq(events, 1, Len(events) - 1)
                       [] edit = "push" -> Append(events, obj)
                       [] OTHER -> [events EXCEPT ![Len(events)] = obj]
          IN /\ events # <<>>
             /\ edit = "push" => Len(events) < MaxArrayLen
             /\ new # events
             /\ timers' = {IF u.gen = gen THEN [u EXCEPT !.events = new] ELSE u :
                             u \in timers}
  /\ UNCHANGED <<now, config, ret, replaySession, storedEvents, nextTimerId, cb, emitted,
                 starts, khVars>>

\* Time passes without a timer firing: exact timers run before the clock passes them.
Tick(limit) ==
  /\ cb = NoCb
  /\ now < limit
  /\ \A t \in timers : t.due > now
  /\ now' = now + 1
  /\ UNCHANGED <<config, ret, replayVars, khVars>>

\* ------------------------------------------------------------------ EventStore
DefaultMaxEvents == 10000

\* constructor: config?.maxEvents ?? 10000
MaxEventsOf(cfg) ==
  IF cfg.maxEvents.t = "undefined" \/ cfg.maxEvents.k = "null"
    THEN DefaultMaxEvents ELSE cfg.maxEvents.n

\* validateEvent: the rule the event violates
StoreError(e) ==
  IF e.k = "null" \/ e.t # "object" THEN "object"
  ELSE IF e.key.t # "string" \/ Len(e.key.s) = 0 THEN "key"
  ELSE IF e.code.t # "string" \/ Len(e.code.s) = 0 THEN "code"
  ELSE IF e.duration.t # "number" \/ JsLtZero(e.duration) THEN "duration"
  ELSE IF e.timestamp.t # "number" \/ JsLeZero(e.timestamp) THEN "timestamp"
  ELSE "ok"

\* an insertion that never evicts
AddEventNoEviction(events, e, maxEvents) == Append(events, e)

\* an insertion that drops the new event when the store is full
AddEventDropsNewest(events, e, maxEvents) ==
  IF Len(events) >= maxEvents THEN events ELSE Append(events, e)

\* addEvent on the validated event: push, then one shift when over the limit
AddEvent(events, e, maxEvents) ==
  LET pushed == Append(events, e)
  IN IF Len(pushed) > maxEvents THEN Tail(pushed) ELSE pushed

\* the objects of a returned array once the store has let go of its own array
Detached(r) == [i \in 1..Len(r) |-> [r[i] EXCEPT !.id = 0]]

\* EventStore.addEvent(event) called directly: validateEvent, then the insertion
StoreAddEvent(e) ==
  /\ cb = NoCb
  /\ Len(inserted) < MaxInserts
  /\ LET rule == StoreError(e)
     IN IF rule # "ok"
          THEN /\ ret' = Outcome("addEvent", [err |-> "validation", index |-> -1,
                                              rule |-> rule], "", <<e>>)
               /\ UNCHANGED <<store, inserted>>
          ELSE /\ store' = AddEvent(store, e, MaxEventsOf(config))
               /\ inserted' = Append(inserted, e)
               /\ ret' = Outcome("addEvent", NoError, "", <<e>>)
  /\ UNCHANGED <<now, config, replayVars, session, capture, listeners, signals,
                 lastSignal, sunk, returned, pendingDowns>>

\* EventStore.clear()
StoreClear ==
  /\ cb = NoCb
  /\ store' = <<>>
  /\ inserted' = <<>>
  /\ returned' = Detached(returned)
  /\ ret' = Returned("clear")
  /\ UNCHANGED <<now, config, replayVars, session, capture, listeners, signals,
                 lastSignal, sunk, pendingDowns>>

\* EventStore.getAllEvents(): a new array holding the event objects of the store
GetAllEvents ==
  /\ cb = NoCb
  /\ returned' = [i \in 1..Len(store) |->
                    [id |-> Len(inserted) - Len(store) + i, val |-> store[i]]]
  /\ ret' = Outcome("getAllEvents", NoError, "", store)
  /\ UNCHANGED <<now, config, replayVars, store, session, capture, listeners, signals,
                 lastSignal, sunk, inserted, pendingDowns>>

\* the caller changes the array it was given: pop(), or push() of an object of its own
CallerMutatesArray(obj) ==
  /\ cb = NoCb
  /\ \/ returned # <<>> /\ returned' = SubSeq(returned, 1, Len(returned) - 1)
     \/ Len(returned) < MaxInserts /\ returned' = Append(returned, [id |-> 0, val |-> obj])
  /\ UNCHANGED <<now, config, ret, replayVars, store, session, capture, listeners,
                 signals, lastSignal, sunk, inserted, pendingDowns>>

\* the caller assigns the key of the i-th event object of the array it was given; the
\* object is the one the store holds as long as the store has not dropped it
CallerMutatesEvent(i, key) ==
  /\ cb = NoCb
  /\ i \in 1..Len(returned)
  /\ returned[i].val.key # key
  /\ LET id == returned[i].id
         val == [returned[i].val EXCEPT !.key = key]
         dropped == Len(inserted) - Len(store)
     IN /\ returned' = [returned EXCEPT ![i].val = val]
        /\ inserted' = IF id > 0 THEN [inserted EXCEPT ![id] = val] ELSE inserted
        /\ store' = IF id > dropped THEN [store EXCEPT ![id - dropped] = val] ELSE store
  /\ UNCHANGED <<now, config, ret, replayVars, session, capture, listeners, signals,
                 lastSignal, sunk, pendingDowns>>

\* ------------------------------------------------------------------ EventCapture
\* onEventCallback: no callback, the callback start() of the coordinator gives, and the
\* callbacks of a caller that uses EventCapture directly
NoCallback == "undefined"
CoordinatorSink == "coordinator"
CallerSinks == {"sinkA", "sinkB"}

DefaultPrecision == 3

\* constructor: config?.captureRepeats ?? true
CaptureRepeatsOf(cfg) ==
  IF cfg.captureRepeats.t = "undefined" THEN TRUE ELSE cfg.captureRepeats.k = "true"

\* constructor: config?.timestampPrecision ?? 3
PrecisionOf(cfg) ==
  IF cfg.timestampPrecision.t = "undefined" THEN DefaultPrecision
  ELSE cfg.timestampPrecision.n

RECURSIVE Pow10(_)
Pow10(p) == IF p <= 0 THEN 1 ELSE 10 * Pow10(p - 1)

\* roundToPrecision(value, precision) = Math.round(value * 10^p) / 10^p, on a value given
\* in ticks. Math.round(x) is floor(x + 1/2). The result is a whole number of ticks for
\* the precisions of the configurations used here.
RoundToPrecision(value, precision) ==
  LET factor == Pow10(precision)
      rounded == (2 * value * factor + TicksPerMs) \div (2 * TicksPerMs)
  IN (rounded * TicksPerMs) \div factor

\* normalizeKeyIdentifier(key, code)
NormalizeKeyIdentifier(key, code) ==
  IF code = sSpace THEN <<" ">>
  ELSE IF code = sEnter THEN sEnter
  ELSE IF code = sTab THEN sTab
  ELSE IF code = sEscape THEN sEscape
  ELSE IF code = sBackspace THEN sBackspace
  ELSE IF code = sDelete THEN sDelete
  ELSE IF key # <<>> /\ key # sUnidentified /\ Len(key) > 0 THEN key
  ELSE code

\* `${keyIdentifier}-${event.code}`
KeyMapId(keyIdentifier, code) == keyIdentifier \o <<"-">> \o code

EmptyMap == [x \in {} |-> 0]

\* a handleKeyDown that refreshes the down-instant on every signal
HandleKeyDownRefreshAlways(cap, key, code, repeat) ==
  IF ~cap.isCapturing \/ cap.onEventCallback = NoCallback THEN cap.keyDownTimes
  ELSE LET keyMapId == KeyMapId(NormalizeKeyIdentifier(key, code), code)
       IN [x \in DOMAIN cap.keyDownTimes \cup {keyMapId} |->
             IF x = keyMapId THEN now ELSE cap.keyDownTimes[x]]

\* handleKeyDown: the pending down-instants after the signal
HandleKeyDown(cap, key, code, repeat) ==
  IF ~cap.isCapturing \/ cap.onEventCallback = NoCallback THEN cap.keyDownTimes
  ELSE LET keyIdentifier == NormalizeKeyIdentifier(key, code)
           keyMapId == KeyMapId(keyIdentifier, code)
       IN IF ~CaptureRepeatsOf(config) /\ repeat THEN cap.keyDownTimes
          ELSE IF keyMapId \notin DOMAIN cap.keyDownTimes \/ CaptureRepeatsOf(config)
            THEN [x \in DOMAIN cap.keyDownTimes \cup {keyMapId} |->
                    IF x = keyMapId THEN now ELSE cap.keyDownTimes[x]]
          ELSE cap.keyDownTimes

\* a handleKeyUp that leaves the identity in the pending state
HandleKeyUpKeepPending(cap, key, code) ==
  LET keyMapId == KeyMapId(NormalizeKeyIdentifier(key, code), code)
  IN IF ~cap.isCapturing \/ cap.onEventCallback = NoCallback \/ keyMapId \notin DOMAIN cap.keyDownTimes
       THEN [emit |-> FALSE, event |-> NullElem, keyDownTimes |-> cap.keyDownTimes]
     ELSE [emit |-> TRUE,
           event |-> Obj(Str(NormalizeKeyIdentifier(key, code)), Str(code),
                         Num(RoundToPrecision(now - cap.keyDownTimes[keyMapId],
                                              PrecisionOf(config))),
                         Num(RoundToPrecision(cap.keyDownTimes[keyMapId] - cap.sessionStartTime,
                                              PrecisionOf(config)))),
           keyDownTimes |-> cap.keyDownTimes]

\* handleKeyUp: whether an event is finalized, the event, and the pending down-instants
HandleKeyUp(cap, key, code) ==
  LET keyIdentifier == NormalizeKeyIdentifier(key, code)
      keyMapId == KeyMapId(keyIdentifier, code)
  IN IF ~cap.isCapturing \/ cap.onEventCallback = NoCallback \/ keyMapId \notin DOMAIN cap.keyDownTimes
       THEN [emit |-> FALSE, event |-> NullElem, keyDownTimes |-> cap.keyDownTimes]
     ELSE LET keyDownTime == cap.keyDownTimes[keyMapId]
              duration == RoundToPrecision(now - keyDownTime, PrecisionOf(config))
              ts == RoundToPrecision(keyDownTime - cap.sessionStartTime, PrecisionOf(config))
          IN [emit |-> TRUE,
              event |-> Obj(Str(keyIdentifier), Str(code), Num(duration), Num(ts)),
              keyDownTimes |-> [x \in DOMAIN cap.keyDownTimes \ {keyMapId} |->
                                  cap.keyDownTimes[x]]]

\* a startCapture that starts over while capturing
StartCaptureAgain(cap, onEvent, sessionStartTime) ==
  [isCapturing |-> TRUE, keyDownTimes |-> EmptyMap, onEventCallback |-> onEvent,
   sessionStartTime |-> sessionStartTime]

\* startCapture(onEvent, sessionStartTime): the fields of EventCapture after the call
StartCapture(cap, onEvent, sessionStartTime) ==
  IF cap.isCapturing THEN cap
  ELSE [isCapturing |-> TRUE, keyDownTimes |-> EmptyMap, onEventCallback |-> onEvent,
        sessionStartTime |-> sessionStartTime]

\* a stopCapture that keeps the pending down-instants
StopCaptureKeepPending(cap) ==
  IF ~cap.isCapturing THEN cap
  ELSE [cap EXCEPT !.isCapturing = FALSE, !.onEventCallback = NoCallback]

\* stopCapture(): the fields of EventCapture after the call
StopCapture(cap) ==
  IF ~cap.isCapturing THEN cap
  ELSE [cap EXCEPT !.isCapturing = FALSE, !.keyDownTimes = EmptyMap,
                   !.onEventCallback = NoCallback]

\* the pending identities after startCapture and after stopCapture, which empty the
\* pending state unless they return early
DownsAfterStart(cap) == IF cap.isCapturing THEN pendingDowns ELSE {}
DownsAfterStop(cap) == IF cap.isCapturing THEN {} ELSE pendingDowns

\* the handlers take the signal: a subscription exists, the capture is on and has a
\* callback
HandlersOn == listeners > 0 /\ capture.isCapturing /\ capture.onEventCallback # NoCallback

\* EventCapture used directly: startCapture(onEvent, performance.now())
CaptureStart(onEvent) ==
  /\ cb = NoCb
  /\ capture' = StartCapture(capture, onEvent, now)
  /\ listeners' = IF capture.isCapturing THEN listeners ELSE listeners + 1
  /\ pendingDowns' = DownsAfterStart(capture)
  /\ ret' = Returned("startCapture")
  /\ UNCHANGED <<now, config, replayVars, store, session, signals, lastSignal, sunk,
                 inserted, returned>>

\* EventCapture used directly: stopCapture()
CaptureStop ==
  /\ cb = NoCb
  /\ capture' = StopCapture(capture)
  /\ listeners' = IF capture.isCapturing THEN listeners - 1 ELSE listeners
  /\ pendingDowns' = DownsAfterStop(capture)
  /\ ret' = Returned("stopCapture")
  /\ UNCHANGED <<now, config, replayVars, store, session, signals, lastSignal, sunk,
                 inserted, returned>>

\* ------------------------------------------------------------------ KeyboardHistory
NoSignal == [kind |-> "none", key |-> <<>>, code |-> <<>>, repeat |-> FALSE]

\* a start() that begins a new session also while recording
StartAgain ==
  /\ cb = NoCb
  /\ store' = <<>>
  /\ inserted' = <<>>
  /\ returned' = Detached(returned)
  /\ session' = [isRecording |-> TRUE, startTime |-> Num(now), events |-> <<>>]
  /\ capture' = StartCapture(capture, CoordinatorSink, now)
  /\ pendingDowns' = DownsAfterStart(capture)
  /\ listeners' = IF capture.isCapturing THEN listeners ELSE listeners + 1
  /\ sunk' = <<>>
  /\ ret' = Returned("start")
  /\ UNCHANGED <<now, config, replayVars, signals, lastSignal>>

\* a start() that begins a session without EventStore.clear()
StartKeepStore ==
  /\ cb = NoCb
  /\ IF session.isRecording
       THEN UNCHANGED <<session, capture, listeners, sunk, pendingDowns>>
       ELSE /\ session' = [isRecording |-> TRUE, startTime |-> Num(now), events |-> <<>>]
            /\ capture' = StartCapture(capture, CoordinatorSink, now)
            /\ pendingDowns' = DownsAfterStart(capture)
            /\ listeners' = IF capture.isCapturing THEN listeners ELSE listeners + 1
            /\ sunk' = <<>>
  /\ ret' = Returned("start")
  /\ UNCHANGED <<now, config, replayVars, signals, lastSignal, store, inserted, returned>>

\* start(), with EventStore.clear() and EventCapture.startCapture()
Start ==
  /\ cb = NoCb
  /\ IF session.isRecording
       THEN UNCHANGED <<store, session, capture, listeners, sunk, inserted, returned,
                        pendingDowns>>
       ELSE /\ store' = <<>>
            /\ inserted' = <<>>
            /\ returned' = Detached(returned)
            /\ session' = [isRecording |-> TRUE, startTime |-> Num(now), events |-> <<>>]
            /\ capture' = StartCapture(capture, CoordinatorSink, now)
            /\ pendingDowns' = DownsAfterStart(capture)
            /\ listeners' = IF capture.isCapturing THEN listeners ELSE listeners + 1
            /\ sunk' = <<>>
  /\ ret' = Returned("start")
  /\ UNCHANGED <<now, config, replayVars, signals, lastSignal>>

\* stop(), with EventCapture.stopCapture()
Stop ==
  /\ cb = NoCb
  /\ IF ~session.isRecording
       THEN UNCHANGED <<session, capture, listeners, pendingDowns>>
       ELSE /\ capture' = StopCapture(capture)
            /\ pendingDowns' = DownsAfterStop(capture)
            /\ listeners' = IF capture.isCapturing THEN listeners - 1 ELSE listeners
            /\ session' = [session EXCEPT !.isRecording = FALSE, !.startTime = NullV]
  /\ ret' = Returned("stop")
  /\ UNCHANGED <<now, config, replayVars, store, signals, lastSignal, sunk, inserted,
                 returned>>

\* the host delivers a key-down signal to the subscribed handler
KeyDown(key, code, repeat) ==
  /\ cb = NoCb
  /\ signals < MaxSignals
  /\ signals' = signals + 1
  /\ lastSignal' = [kind |-> "down", key |-> key, code |-> code, repeat |-> repeat]
  /\ IF listeners = 0 THEN UNCHANGED capture
     ELSE capture' = [capture EXCEPT !.keyDownTimes = HandleKeyDown(capture, key, code, repeat)]
  /\ pendingDowns' =
       IF HandlersOn /\ (CaptureRepeatsOf(config) \/ ~repeat)
         THEN pendingDowns \cup {<<NormalizeKeyIdentifier(key, code), code>>}
         ELSE pendingDowns
  /\ ret' = Returned("keydown")
  /\ UNCHANGED <<now, config, replayVars, store, session, listeners, sunk, inserted,
                 returned>>

\* One call of the sink: the event handleKeyUp built, the signal it was built from, the
\* down-instant it was paired with (anchor), the instant of the key-up (upAt), the
\* session reference instant (startAt) and the callback that was called (sink).
SinkCall(event, key, code, anchor) ==
  [event |-> event, key |-> key, code |-> code, anchor |-> anchor, upAt |-> now,
   startAt |-> capture.sessionStartTime, sink |-> capture.onEventCallback]

\* the host delivers a key-up signal to the subscribed handler; a finalized event goes
\* to the callback: the one given by start() does eventStore.addEvent, then
\* session.events.push; the one of a direct caller only receives the event
KeyUp(key, code) ==
  /\ cb = NoCb
  /\ signals < MaxSignals
  /\ signals' = signals + 1
  /\ lastSignal' = [kind |-> "up", key |-> key, code |-> code, repeat |-> FALSE]
  /\ pendingDowns' =
       IF HandlersOn THEN pendingDowns \ {<<NormalizeKeyIdentifier(key, code), code>>}
       ELSE pendingDowns
  /\ IF listeners = 0
       THEN /\ ret' = Returned("keyup")
            /\ UNCHANGED <<capture, store, session, sunk, inserted>>
       ELSE LET h == HandleKeyUp(capture, key, code)
                rule == StoreError(h.event)
                keyMapId == KeyMapId(NormalizeKeyIdentifier(key, code), code)
            IN /\ capture' = [capture EXCEPT !.keyDownTimes = h.keyDownTimes]
               /\ IF ~h.emit
                    THEN /\ ret' = Returned("keyup")
                         /\ UNCHANGED <<store, session, sunk, inserted>>
                  ELSE /\ sunk' = Append(sunk, SinkCall(h.event, key, code,
                                                        capture.keyDownTimes[keyMapId]))
                       /\ IF capture.onEventCallback # CoordinatorSink
                            THEN /\ ret' = Returned("keyup")
                                 /\ UNCHANGED <<store, session, inserted>>
                          ELSE IF rule # "ok"
                            THEN /\ ret' = Threw("keyup", [err |-> "validation",
                                                           index |-> -1, rule |-> rule])
                                 /\ UNCHANGED <<store, session, inserted>>
                            ELSE /\ store' = AddEvent(store, h.event, MaxEventsOf(config))
                                 /\ inserted' = Append(inserted, h.event)
                                 /\ session' = [session EXCEPT !.events = Append(@, h.event)]
                                 /\ ret' = Returned("keyup")
  /\ UNCHANGED <<now, config, replayVars, listeners, returned>>

\* a replay(events?) that hands no snapshot of the store to the scheduler
KHReplayCallNoSnapshot(arg) ==
  /\ ReplayCall(arg, storedEvents)
  /\ UNCHANGED storedEvents

\* KeyboardHistory.replay(events?): an argument goes to the scheduler as it is; without
\* one the scheduler gets a copy of the store as its default sequence first
KHReplayCall(arg) ==
  IF arg.t # "undefined"
    THEN /\ ReplayCall(arg, storedEvents)
         /\ UNCHANGED storedEvents
    ELSE /\ storedEvents' = store
         /\ ReplayCall(ArgUndefined, store)

KHReplay(arg) ==
  /\ cb = NoCb
  /\ KHReplayCall(arg)
  /\ UNCHANGED <<now, config, emitted, khVars>>

\* the read-only calls of the coordinator
Readers == {"isRecording", "isReplaying", "getSession", "getRecordedKeys"}

\* isRecording(), isReplaying(), getSession(), getRecordedKeys(): each returns a value
\* read from the fields (getSession and getRecordedKeys a copy) and writes nothing
Query(op) ==
  /\ cb = NoCb
  /\ ret' = Returned(op)
  /\ UNCHANGED <<now, config, replayVars, khVars>>

\* ------------------------------------------------------------------ inputs
EvA == Obj(Str(<<"a">>), Str(sKeyA), Num(1), Num(1))
EvB == Obj(Str(<<"b">>), Str(sKeyB), Num(2), Num(2))
EvC == Obj(Str(<<"c">>), Str(sKeyA), Num(0), Num(0))
EvSpace == Obj(Str(<<" ">>), Str(sSpace), Num(1), Num(1))
EvEmptyKey == Obj(Str(<<>>), Str(sKeyA), Num(1), Num(1))
EvBlankCode == Obj(Str(<<"a">>), Str(<<" ", "\t">>), Num(1), Num(1))
EvKeyNumber == Obj(Num(1), Str(sKeyA), Num(1), Num(1))
EvNoCode == Obj(Str(<<"a">>), Undef, Num(1), Num(1))
EvNegDuration == Obj(Str(<<"a">>), Str(sKeyA), Num(-1), Num(1))
EvNaNDuration == Obj(Str(<<"a">>), Str(sKeyA), NaN, Num(1))
EvInfDuration == Obj(Str(<<"a">>), Str(sKeyA), PosInf, Num(1))
EvNegInfDuration == Obj(Str(<<"a">>), Str(sKeyA), NegInf, Num(1))
EvNaNTimestamp == Obj(Str(<<"a">>), Str(sKeyA), Num(1), NaN)
EvInfTimestamp == Obj(Str(<<"a">>), Str(sKeyA), Num(1), PosInf)
EvNegTimestamp == Obj(Str(<<"a">>), Str(sKeyA), Num(1), Num(-1))
EvStrTimestamp == Obj(Str(<<"a">>), Str(sKeyA), Num(1), Str(<<"1">>))
EvEmptyObject == Obj(Undef, Undef, Undef, Undef)

\* arrays every element of which the specification's rules accept
ValidArrays == { <<EvA>>, <<EvC, EvA, EvB>> }

\* arrays with an element the specification's rules reject
InvalidArrays == { <<EvA, EvEmptyKey, NullElem>>, <<EvNaNDuration>> }

\* every kind of element, for the validation on its own
ProbeArrays ==
  { <<NullElem>>, <<EvA, NumElem>>, <<EvSpace>>, <<EvBlankCode>>, <<EvKeyNumber, EvA>>,
    <<EvNoCode>>, <<EvA, EvB, EvNegDuration>>, <<EvA, EvInfDuration>>,
    <<EvNegInfDuration>>, <<EvNaNTimestamp, EvA>>, <<EvInfTimestamp>>,
    <<EvNegTimestamp>>, <<EvStrTimestamp>>, <<EvEmptyObject>>,
    <<EvEmptyKey, EvKeyNumber>>, <<EvA, EvB>>, <<EvB, EvA>>, <<EvB, EvB>>, <<>> }
    \cup ValidArrays \cup InvalidArrays

ReplayArgs ==
  {ArgUndefined, ArgNull, ArgArray(<<>>)}
    \cup {ArgArray(a) : a \in ValidArrays \cup InvalidArrays}

ObserverArgs == {ArgNumber, ArgArray(<<EvB, EvA>>)}

StoredInputs == {ArgNull, ArgArray(<<EvB, EvA>>)}

ReplayConfigs ==
  { [maxEvents |-> Undef, captureRepeats |-> Undef, timestampPrecision |-> Undef,
     replayEventName |-> n] : n \in {Undef} }

\* ------------------------------------------------------------------ specifications
InitWith(configs) ==
  /\ now = 0
  /\ config \in configs
  /\ replaySession = IdleSession
  /\ storedEvents = <<>>
  /\ timers = {}
  /\ nextTimerId = 1
  /\ cb = NoCb
  /\ emitted = <<>>
  /\ starts = <<>>
  /\ ret = [op |-> "new", err |-> "none", index |-> -1, rule |-> "ok", inCb |-> FALSE,
            wasReplaying |-> FALSE, argT |-> "", seq |-> <<>>]
  /\ store = <<>>
  /\ session = [isRecording |-> FALSE, startTime |-> NullV, events |-> <<>>]
  /\ capture = [isCapturing |-> FALSE, keyDownTimes |-> EmptyMap, onEventCallback |-> NoCallback,
                sessionStartTime |-> 0]
  /\ listeners = 0
  /\ signals = 0
  /\ lastSignal = NoSignal
  /\ sunk = <<>>
  /\ inserted = <<>>
  /\ returned = <<>>
  /\ pendingDowns = {}

Init == InitWith(ReplayConfigs)

Next ==
  \/ \E x \in StoredInputs : SetStoredEvents(x)
  \/ \E arg \in ReplayArgs : Replay(arg)
  \/ StopReplay
  \/ TimerFire
  \/ ObserverStopReplay
  \/ \E arg \in ObserverArgs : ObserverReplay(arg)
  \/ TimerReturn
  \/ Tick(MaxTime)

\* The replay scheduler on its own, driven through the API of EventReplay.
Spec == Init /\ [][Next]_vars


\* ------------------------------------------------------------------ coordinator
BoolV(b) == [t |-> "boolean", k |-> IF b THEN "true" ELSE "false", n |-> 0, s |-> <<>>]

KHConfigs ==
  { [maxEvents |-> Undef, captureRepeats |-> Undef, timestampPrecision |-> Undef,
     replayEventName |-> Undef],
    [maxEvents |-> Num(1), captureRepeats |-> BoolV(FALSE), timestampPrecision |-> Num(0),
     replayEventName |-> Str(sCustomChannel)] }

\* key signals: label and physical code
SignalKeys == { <<<<"a">>, sKeyA>>, <<<<" ">>, sSpace>>, <<<<>>, <<>>>> }

KHReplayArgs == {ArgUndefined, ArgNull}

InitKH == InitWith(KHConfigs)

\* key signals of the behaviours with replay
KHSignalKeys == { <<<<"a">>, sKeyA>>, <<<<" ">>, sSpace>> }

NextKH ==
  \/ Start
  \/ Stop
  \/ \E k \in KHSignalKeys : signals < MaxReplaySignals /\ KeyDown(k[1], k[2], FALSE)
  \/ \E k \in KHSignalKeys : signals < MaxReplaySignals /\ KeyUp(k[1], k[2])
  \/ \E op \in Readers : Query(op)
  \/ \E arg \in KHReplayArgs : KHReplay(arg)
  \/ StopReplay
  \/ TimerFire
  \/ TimerReturn
  \/ Tick(MaxTime)

\* The session coordinator with capture, store and scheduler, driven through the API of
\* KeyboardHistory and the host's key signals.
SpecKH == InitKH /\ [][NextKH]_vars


ProbeArgs == {ArgUndefined, ArgNull, ArgNumber} \cup {ArgArray(a) : a \in ProbeArrays}

NextValidation ==
  \/ \E arg \in ProbeArgs : Replay(arg)
  \/ StopReplay
  \/ TimerFire
  \/ TimerReturn
  \/ Tick(MaxTime)

\* The validation of replay(): the scheduler called with every kind of argument and
\* element, without observers that call back.
SpecValidation == Init /\ [][NextValidation]_vars


\* capacities of a store used directly: 0, 1, 2 and the default
StoreConfigs ==
  { [maxEvents |-> m, captureRepeats |-> Undef, timestampPrecision |-> Undef,
     replayEventName |-> Undef] : m \in {Num(0), Num(1), Num(2), Undef} }

\* events given to addEvent: one for every rule of validateEvent
StoreProbes ==
  { EvA, EvB, EvC, EvSpace, EvEmptyKey, EvKeyNumber, EvNoCode, EvNegDuration,
    EvNaNDuration, EvInfDuration, EvNaNTimestamp, EvInfTimestamp, EvNegTimestamp,
    EvStrTimestamp, NullElem, NumElem }

InitStore == InitWith(StoreConfigs)

NextStore ==
  \/ \E e \in StoreProbes : StoreAddEvent(e)
  \/ StoreClear

\* The event store on its own, driven through the API of EventStore.
SpecStore == InitStore /\ [][NextStore]_vars

NextCapture ==
  \/ Start
  \/ Stop
  \/ \E k \in SignalKeys, repeat \in BOOLEAN : KeyDown(k[1], k[2], repeat)
  \/ \E k \in SignalKeys : KeyUp(k[1], k[2])
  \/ Tick(MaxSessionTime)

\* Recording on its own: the coordinator's start() and stop() and the host's key
\* signals, no replay.
SpecCapture == InitKH /\ [][NextCapture]_vars


NextCaptureApi ==
  \/ \E onEvent \in CallerSinks : CaptureStart(onEvent)
  \/ CaptureStop
  \/ \E k \in KHSignalKeys, repeat \in BOOLEAN : KeyDown(k[1], k[2], repeat)
  \/ \E k \in KHSignalKeys : KeyUp(k[1], k[2])
  \/ Tick(MaxSessionTime)

\* The capture on its own, driven through the API of EventCapture by a caller with two
\* callbacks.
SpecCaptureApi == InitKH /\ [][NextCaptureApi]_vars


\* channel names given at construction: none, a custom one, the empty string
ChannelConfigs ==
  { [maxEvents |-> Undef, captureRepeats |-> Undef, timestampPrecision |-> Undef,
     replayEventName |-> n] : n \in {Undef, Str(sCustomChannel), Str(<<>>)} }

InitEmission == InitWith(ChannelConfigs)

EmissionArgs == {ArgArray(<<EvA, EvB>>), ArgArray(<<EvC, EvA>>), ArgArray(<<EvA>>)}

NextEmission ==
  \/ \E arg \in EmissionArgs : Replay(arg)
  \/ StopReplay
  \/ TimerFire
  \/ TimerReturn
  \/ Tick(MaxTime)

\* The emissions of the scheduler under every kind of configured channel name, without
\* observers that call back.
SpecEmission == InitEmission /\ [][NextEmission]_vars


\* capacities of a store whose returned arrays a caller changes: 1 and the default
AliasConfigs ==
  { [maxEvents |-> m, captureRepeats |-> Undef, timestampPrecision |-> Undef,
     replayEventName |-> Undef] : m \in {Num(1), Undef} }

InitAlias == InitWith(AliasConfigs)

\* keys a caller assigns to an event object it was given
CallerKeys == {Str(<<>>)}

NextAlias ==
  \/ \E e \in {EvA, EvB} : StoreAddEvent(e)
  \/ StoreClear
  \/ GetAllEvents
  \/ \E obj \in {EvB} : CallerMutatesArray(obj)
  \/ \E i \in 1..MaxInserts, key \in CallerKeys : CallerMutatesEvent(i, key)

\* The event store and a caller that keeps and changes the array getAllEvents() gave it.
SpecAlias == InitAlias /\ [][NextAlias]_vars


\* default sequences given to setStoredEvents: nothing, valid, and with an element the
\* validation is to reject
StoredProbes ==
  { ArgNull, ArgArray(<<EvA>>), ArgArray(<<EvA, EvEmptyKey>>), ArgArray(<<NullElem>>),
    ArgArray(<<EvNegTimestamp, EvA>>), ArgArray(<<EvNaNDuration>>) }

StoredReplayArgs == {ArgUndefined, ArgArray(<<EvA, EvB>>)}

NextStored ==
  \/ \E x \in StoredProbes : SetStoredEvents(x)
  \/ \E arg \in StoredReplayArgs : Replay(arg)
  \/ StopReplay
  \/ TimerFire
  \/ TimerReturn
  \/ Tick(MaxTime)

\* The default sequence of the scheduler: setStoredEvents with every kind of content,
\* then replay() with and without an argument.
SpecStored == Init /\ [][NextStored]_vars


CallerArrayArgs == {ArgArray(<<EvA, EvB>>), ArgArray(<<EvC, EvA, EvB>>)}

\* what a caller does to the array it gave to replay()
CallerEdits == {"pop", "push", "assign"}

NextCallerArray ==
  \/ \E arg \in CallerArrayArgs : Replay(arg)
  \/ StopReplay
  \/ TimerFire
  \/ TimerReturn
  \/ \E edit \in CallerEdits, obj \in {EvSpace} : CallerMutatesSequence(edit, obj)
  \/ Tick(MaxTime)

\* The scheduler and a caller that keeps and changes the array it gave to replay(),
\* without observers that call back.
SpecCallerArray == Init /\ [][NextCallerArray]_vars


\* key signals for the pairing: one physical key with two labels, and two signals with
\* a hyphen in the label or in the code
PairingKeys ==
  { <<<<"A">>, sKeyA>>, <<<<"a">>, sKeyA>>,
    <<<<"a", "-", "b">>, <<"c">>>>, <<<<"a">>, <<"b", "-", "c">>>> }

NextPairing ==
  \/ Start
  \/ Stop
  \/ \E k \in PairingKeys : KeyDown(k[1], k[2], FALSE)
  \/ \E k \in PairingKeys : KeyUp(k[1], k[2])
  \/ Tick(MaxTime)

\* The pairing of down- and up-signals whose labels and codes differ in part.
SpecPairing == InitKH /\ [][NextPairing]_vars


\* elements that violate more than one rule of the validation
EvEmptyKeyNegDuration == Obj(Str(<<>>), Str(sKeyA), Num(-1), Num(1))
EvBlankKeyCodeNumber == Obj(Str(<<" ">>), Num(1), Num(1), Num(1))
EvEmptyCodeNegTimestamp == Obj(Str(<<"a">>), Str(<<>>), Num(1), Num(-1))
EvKeyNumberNoCode == Obj(Num(1), Undef, Num(-1), Num(-1))
EvNegDurationNegTimestamp == Obj(Str(<<"a">>), Str(sKeyA), Num(-1), Num(-1))

RuleOrderArgs ==
  { ArgArray(<<EvEmptyKeyNegDuration>>), ArgArray(<<EvA, EvBlankKeyCodeNumber>>),
    ArgArray(<<EvEmptyCodeNegTimestamp, EvA>>), ArgArray(<<EvKeyNumberNoCode>>),
    ArgArray(<<EvNegDurationNegTimestamp>>), ArgArray(<<EvEmptyObject>>),
    ArgArray(<<EvC, EvA, EvB>>) }

NextRuleOrder ==
  \/ \E arg \in RuleOrderArgs : Replay(arg)
  \/ StopReplay
  \/ TimerFire
  \/ TimerReturn
  \/ Tick(MaxTime)

\* The validation of replay() on elements that violate several rules at once.
SpecRuleOrder == Init /\ [][NextRuleOrder]_vars


\* ------------------------------------------------------------------ properties
\* the notifications of replay session g, oldest first
EmittedSeq(g) == SelectSeq(emitted, LAMBDA n : n.gen = g)

\* the notification carries the data of the sequence element
Carries(n, e) ==
  /\ n.key = e.key
  /\ n.code = e.code
  /\ n.duration = e.duration
  /\ n.timestamp = e.timestamp

\* stopReplay() has never stopped replay session g
NeverStopped(g) == starts[g].stoppedK = -1

\* no timer of replay session g is pending and no callback of it is executing
ChainDone(g) == (\A t \in timers : t.gen # g) /\ ~(cb.on /\ cb.gen = g)

\* the k-th notifications of g are the first elements of its sequence, in order
InOrder(g) ==
  LET out == EmittedSeq(g)
      arr == starts[g].arr
  IN /\ Len(out) <= Len(arr)
     /\ \A k \in 1..Len(out) : out[k].idx = k - 1 /\ Carries(out[k], arr[k])

\* The validation rules of the specification (4.3, rules 1 to 5).
SpecValid(e) ==
  /\ e.t = "object" /\ e.k = "obj"
  /\ e.key.t = "string" /\ Trim(e.key.s) # <<>>
  /\ e.code.t = "string" /\ Trim(e.code.s) # <<>>
  /\ IsFinite(e.duration) /\ e.duration.n >= 0
  /\ IsFinite(e.timestamp) /\ e.timestamp.n >= 0

SpecInvalidAt(seq) == {i \in 1..Len(seq) : ~SpecValid(seq[i])}

\* the last call was replay() made while no replay was active, with an array or nothing
ReplayFromIdle ==
  ret.op = "replay" /\ ~ret.wasReplaying /\ ret.argT \in {"array", "undefined"}

\* C1: a replay that starts from Idle and is never stopped emits exactly one notification
\* per element of its sequence, the k-th carrying events[k]: nothing is skipped,
\* duplicated or reordered, and once its chain of timers has ended all m were emitted.
C1_ReplayOrderPreserved ==
  \A g \in 1..Len(starts) :
    /\ InOrder(g)
    /\ (NeverStopped(g) /\ ChainDone(g)) => Len(EmittedSeq(g)) = Len(starts[g].arr)

\* C2: once stopReplay() has returned from stopping an active replay that had emitted k
\* events, no timer is pending, isReplaying() is false, and the number of notifications
\* of that replay stays k for ever.
C2_StopHaltsReplay ==
  /\ (ret.op = "stopReplay" /\ ret.wasReplaying) =>
        (~replaySession.isReplaying /\ timers = {})
  /\ \A g \in 1..Len(starts) :
        starts[g].stoppedK >= 0 => EmittedOf(g) = starts[g].stoppedK

\* C3: replay(x) called while a replay is active throws the replay-in-progress error
\* whatever x is, and changes nothing of the replay in progress: session record, pending
\* timers, handles, notifications.
C3_ReplayExclusive ==
  [][(ret' # ret /\ ret'.op = "replay" /\ replaySession.isReplaying) =>
       (/\ ret'.err = "inProgress"
        /\ UNCHANGED <<replaySession, timers, nextTimerId, emitted, starts, cb, now>>)]_vars

C3_Witness ==
  /\ ret.op = "replay" /\ ret.err = "inProgress" /\ ret.argT = "null"
  /\ replaySession.isReplaying /\ replaySession.currentIndex = 1
  /\ timers # {}

\* C4: after stopReplay() on an active replay of A, a replay(B) (from top-level code or
\* from an observer of A) runs on its own: no event of A is emitted after the stop, B's
\* notifications are B's events in order, each once, and when B's chain has ended
\* without a stop all of B was emitted and the scheduler is Idle.
C4_RestartIndependent ==
  \A g \in 2..Len(starts) :
    starts[g].afterStop =>
      /\ \A j \in 1..Len(emitted) : j > starts[g].logPos => emitted[j].gen >= g
      /\ InOrder(g)
      /\ (NeverStopped(g) /\ ChainDone(g)) =>
            /\ Len(EmittedSeq(g)) = Len(starts[g].arr)
            /\ (g = gen => replaySession = IdleSession)

\* C5: stopReplay() called by the observer of the emission of event i takes effect:
\* isReplaying() is false when it returns and after the callback, no timer is pending,
\* and no event of that replay with an index above i is ever emitted.
C5_ObserverStopTakesEffect ==
  /\ (ret.op = "stopReplay" /\ ret.wasReplaying /\ ret.inCb) =>
        (~replaySession.isReplaying /\ timers = {})
  /\ \A g \in 1..Len(starts) :
        starts[g].stoppedIn >= 0 =>
          \A j \in 1..Len(emitted) :
             emitted[j].gen = g => emitted[j].idx <= starts[g].stoppedIn

\* C6: a sequence with an element the validation rules reject makes replay() throw the
\* validation error that names the smallest index of such an element, and no replay
\* session starts.
C6_ValidatesBeforeScheduling ==
  (ReplayFromIdle /\ SpecInvalidAt(ret.seq) # {}) =>
     /\ ret.err = "validation"
     /\ \A i \in SpecInvalidAt(ret.seq) : ret.index + 1 <= i
     /\ ret.index + 1 \in SpecInvalidAt(ret.seq)
     /\ ~replaySession.isReplaying

\* C7: replay() accepts a sequence exactly when every element is a non-null object with
\* key and code non-empty after trimming and duration and timestamp finite and >= 0.
C7_AcceptsExactlyValid ==
  ReplayFromIdle => ((ret.err = "none") <=> (SpecInvalidAt(ret.seq) = {}))

\* C8: a replay that is never stopped ends by natural completion: when no timer is
\* pending and no callback is executing, the scheduler is in the Idle shape and every
\* event of the replay has been emitted.
C8_NaturalCompletion ==
  (timers = {} /\ ~cb.on /\ gen >= 1 /\ NeverStopped(gen)) =>
     /\ replaySession = IdleSession
     /\ Len(EmittedSeq(gen)) = Len(starts[gen].arr)

\* the timestamps of the first k elements are finite and non-decreasing
NonDecreasingUpTo(arr, k) ==
  \A i \in 1..k :
     /\ IsFinite(arr[i].timestamp)
     /\ i > 1 => arr[i - 1].timestamp.n <= arr[i].timestamp.n

\* C9: per-gap timing. The timer of event 0 is set at the replay() call with delay
\* events[0].timestamp; the timer of event i > 0 is set when event i-1 is emitted, with
\* delay events[i].timestamp - events[i-1].timestamp; so with non-decreasing timestamps
\* event i is emitted exactly events[i].timestamp after the replay() call.
C9_PerGapTiming ==
  /\ \A t \in timers :
       LET arr == starts[t.gen].arr
       IN IF t.idx = 0
            THEN t.setAt = starts[t.gen].at /\ t.delay = arr[1].timestamp
            ELSE /\ \E j \in 1..Len(emitted) :
                       /\ emitted[j].gen = t.gen
                       /\ emitted[j].idx = t.idx - 1
                       /\ emitted[j].replayTimestamp = t.setAt
                 /\ (IsFinite(arr[t.idx + 1].timestamp) /\ IsFinite(arr[t.idx].timestamp)) =>
                       t.delay = Num(arr[t.idx + 1].timestamp.n - arr[t.idx].timestamp.n)
  /\ \A j \in 1..Len(emitted) :
       LET n == emitted[j]
           arr == starts[n.gen].arr
       IN NonDecreasingUpTo(arr, n.idx + 1) =>
            n.replayTimestamp = starts[n.gen].at + arr[n.idx + 1].timestamp.n

C9_Witness ==
  \E j \in 1..Len(emitted) :
     /\ emitted[j].idx = 2
     /\ starts[emitted[j].gen].at > 0
     /\ emitted[j].replayTimestamp = starts[emitted[j].gen].at + 2

\* C10: what was recorded can be replayed: replay() without an argument, called while
\* no replay is active, does not throw, every event it took from the store passes the
\* validation of replay(), and the store's events are what it replays.
C10_RecordedReplayable ==
  (ret.op = "replay" /\ ret.argT = "undefined" /\ ~ret.wasReplaying) =>
     /\ ret.err = "none"
     /\ \A i \in 1..Len(ret.seq) : ElemError(ret.seq[i]) = "ok"
     /\ ret.seq # <<>> => starts[gen].arr = ret.seq

\* the last n elements of seq (all of it when it has no more than n)
LastN(seq, n) ==
  IF Len(seq) <= n THEN seq ELSE SubSeq(seq, Len(seq) - n + 1, Len(seq))

\* C11: with capacity N >= 0 the store never holds more than N events, and what it
\* holds is the most recent min(inserted since the last clear, N) accepted events,
\* oldest first.
C11_StoreCapacity ==
  /\ Len(store) <= MaxEventsOf(config)
  /\ store = LastN(inserted, MaxEventsOf(config))

C11_Witness ==
  /\ ret.op = "addEvent"
  /\ MaxEventsOf(config) = 2
  /\ Len(inserted) = 3
  /\ store = <<inserted[2], inserted[3]>>
  /\ inserted[1] # inserted[2]

\* The validation rules of the store in the specification (4.1): an object, key and
\* code non-empty strings, duration finite and >= 0, timestamp finite and > 0.
StoreSpecValid(e) ==
  /\ e.t = "object" /\ e.k = "obj"
  /\ e.key.t = "string" /\ Len(e.key.s) > 0
  /\ e.code.t = "string" /\ Len(e.code.s) > 0
  /\ IsFinite(e.duration) /\ e.duration.n >= 0
  /\ IsFinite(e.timestamp) /\ e.timestamp.n > 0

\* C12: addEvent(e) throws a validation error exactly when e breaks one of the store's
\* rules (NaN and Infinity are not finite numbers; timestamp 0 is not > 0); an event it
\* accepts is the last of the insertions.
C12_StoreRejectsInvalid ==
  ret.op = "addEvent" =>
     IF StoreSpecValid(ret.seq[1])
       THEN ret.err = "none" /\ inserted # <<>> /\ inserted[Len(inserted)] = ret.seq[1]
       ELSE ret.err = "validation"

\* the identity (normalized key, code) of a key signal, as the capture keys it
SignalId(sig) == KeyMapId(NormalizeKeyIdentifier(sig.key, sig.code), sig.code)

\* the capture is on and holds a down-instant for the identity of the signal
Pending(cap, sig) == cap.isCapturing /\ SignalId(sig) \in DOMAIN cap.keyDownTimes

\* the step delivers a key-up signal
KeyUpStep == signals' = signals + 1 /\ lastSignal'.kind = "up"

\* rounding to the configured number of decimals
Round(x) == RoundToPrecision(x, PrecisionOf(config))

C15_HandlersNeverThrow ==
  ret.op \in {"keydown", "keyup"} => ret.err = "none"

\* C16: the events getRecordedKeys() returns have non-decreasing timestamps.
C16_RecordedChronological ==
  \A i \in 1..Len(store) : \A j \in i..Len(store) :
     store[i].timestamp.n <= store[j].timestamp.n

\* the events of a sequence of sink calls
SunkEvents == [i \in 1..Len(sunk) |-> sunk[i].event]

\* C17: events reach the sink in the order of their key-up signals and each is stored
\* on arrival: the insertions into the store are the sink's events in that order, and
\* the store returns the insertions it retains in insertion order.
C17_EmittedInKeyUpOrder ==
  /\ \A i \in 1..Len(sunk) : \A j \in i..Len(sunk) : sunk[i].upAt <= sunk[j].upAt
  /\ inserted = SunkEvents
  /\ store = LastN(inserted, MaxEventsOf(config))

\* C18: after start() the session is recording and after stop() it is not (it is not
\* initially); only start() and stop() change that; startTime is non-null exactly when
\* recording and there is one subscription exactly when recording; start() while
\* recording and stop() while not recording change nothing.
C18_SessionState ==
  /\ [](/\ ret.op = "new" => ~session.isRecording
        /\ ret.op = "start" => session.isRecording
        /\ ret.op = "stop" => ~session.isRecording
        /\ session.startTime # NullV <=> session.isRecording
        /\ listeners = (IF session.isRecording THEN 1 ELSE 0))
  /\ [][/\ session'.isRecording # session.isRecording =>
              ret'.op = (IF session'.isRecording THEN "start" ELSE "stop")
        /\ (ret'.op = "start" /\ session.isRecording) =>
              UNCHANGED <<session, store, capture, listeners, sunk, inserted>>
        /\ (ret'.op = "stop" /\ ~session.isRecording) =>
              UNCHANGED <<session, store, capture, listeners, sunk, inserted>>]_vars

C18_Witness ==
  /\ ret.op = "start"
  /\ session.isRecording
  /\ session.events # <<>>
  /\ session.startTime = Num(0)
  /\ now > 0

\* C19: of the coordinator's calls only replay() throws, and only the replay-in-progress,
\* the invalid-input or the validation error; start(), stop(), stopReplay() and the
\* read-only calls return normally in every state.
C19_OnlyReplayThrows ==
  /\ ret.op \in {"new", "start", "stop", "stopReplay"} \cup Readers => ret.err = "none"
  /\ ret.op = "replay" => ret.err \in {"none", "inProgress", "invalidInput", "validation"}

C19_Witness ==
  /\ ret.op = "replay"
  /\ ret.err = "invalidInput"
  /\ session.isRecording
  /\ capture.keyDownTimes # EmptyMap
  /\ store # <<>>

\* C20: stopReplay() called while no replay is active (never started, already stopped,
\* naturally completed) does not throw and leaves the session record as it was, in the
\* idle shape: not replaying, currentIndex 0, startTime null, no handle.
C20_StopIdempotent ==
  [][(ret' # ret /\ ret'.op = "stopReplay" /\ ~replaySession.isReplaying) =>
       (/\ ret'.err = "none"
        /\ UNCHANGED <<replaySession, timers, nextTimerId, emitted, starts, now>>
        /\ replaySession' = IdleSession)]_vars

\* the step is a call of replay() made while no replay is active
ReplayWhileIdleStep == ret' # ret /\ ret'.op = "replay" /\ ~replaySession.isReplaying

\* C21: while idle, replay([]) and replay() with an empty default sequence do not
\* throw, start no session, schedule no timer and emit nothing: the session record, the
\* timers and the notifications are as before.
C21_EmptyReplayNoOp ==
  [][(/\ ReplayWhileIdleStep
      /\ ret'.argT \in {"array", "undefined"}
      /\ ret'.seq = <<>>) =>
       (/\ ret'.err = "none"
        /\ ~replaySession'.isReplaying
        /\ UNCHANGED <<replaySession, timers, nextTimerId, emitted, starts, now>>)]_vars

C21_Witness ==
  /\ ret.op = "replay"
  /\ ret.argT = "array"
  /\ ret.seq = <<>>
  /\ ret.err = "none"
  /\ ~ret.wasReplaying
  /\ emitted # <<>>
  /\ storedEvents # <<>>

\* C22: while idle, replay(x) with an argument that is given and is not an array (null
\* included) throws the invalid-input error, starts nothing and schedules no timer;
\* only an omitted argument selects the default sequence.
C22_NonArrayRejected ==
  [][ReplayWhileIdleStep =>
       (/\ ret'.argT \notin {"array", "undefined"} =>
             /\ ret'.err = "invalidInput"
             /\ ~replaySession'.isReplaying
             /\ UNCHANGED <<replaySession, timers, nextTimerId, emitted, starts, now>>
        /\ ret'.argT = "undefined" => ret'.seq = storedEvents)]_vars

C22_Witness ==
  /\ ret.op = "replay"
  /\ ret.argT = "null"
  /\ ret.err = "invalidInput"
  /\ ~ret.wasReplaying
  /\ storedEvents # <<>>
  /\ ~replaySession.isReplaying
  /\ timers = {}

\* the step delivers a key-down signal
KeyDownStep == signals' = signals + 1 /\ lastSignal'.kind = "down"

C24_StartCaptureIdempotent ==
  /\ [](listeners = (IF capture.isCapturing THEN 1 ELSE 0))
  /\ [][/\ (ret'.op = "startCapture" /\ capture.isCapturing) =>
              UNCHANGED <<capture, listeners, sunk>>
        /\ (ret'.op = "stopCapture" /\ ~capture.isCapturing) =>
              UNCHANGED <<capture, listeners, sunk>>
        /\ ret'.op = "startCapture" => capture'.isCapturing
        /\ ret'.op = "stopCapture" => ~capture'.isCapturing]_vars

C24_Witness ==
  /\ ret.op = "startCapture"
  /\ capture.onEventCallback = "sinkA"
  /\ capture.keyDownTimes # EmptyMap
  /\ capture.sessionStartTime = 0
  /\ now > 0
  /\ sunk # <<>>

\* the channel the configuration names: replayEventName when one is given, else the default
ConfiguredChannel ==
  IF config.replayEventName.t = "string" THEN config.replayEventName.s ELSE sDefaultChannel

\* C25: every notification is delivered on the configured channel (replayEventName, or
\* keyboardHistoryReplay when none is configured) and carries the key, code, duration
\* and timestamp of the sequence element it was scheduled for, with originalTimestamp
\* equal to that timestamp.
C25_EmissionPayload ==
  \A i \in 1..Len(emitted) :
    LET n == emitted[i]
        e == starts[n.gen].arr[n.idx + 1]
    IN /\ n.channel = ConfiguredChannel
       /\ Carries(n, e)
       /\ n.originalTimestamp = e.timestamp

\* a step of the caller on the array it was given: no call of the API
CallerStep == ret' = ret /\ returned' # returned /\ ret.op = "getAllEvents"

\* C26: getAllEvents() returns the contents of the store in an array of its own, and
\* whatever the caller then does to that array or to an event object inside it leaves
\* the store, and so every later result of the accessors, unchanged.
C26_NoAliasing ==
  [][/\ (ret' # ret /\ ret'.op = "getAllEvents") =>
           [i \in 1..Len(returned') |-> returned'[i].val] = store
     /\ CallerStep => UNCHANGED <<store, session, replaySession, storedEvents>>]_vars

\* the same for the changes a caller makes to the array itself
C26_ArrayNotAliased ==
  [][(CallerStep /\ Len(returned') # Len(returned)) =>
        UNCHANGED <<store, session, replaySession, storedEvents>>]_vars

\* a step that is a call of setStoredEvents
SetStoredStep ==
  ret'.op = "setStoredEvents" /\ (ret' # ret \/ storedEvents' # storedEvents)

\* C27: setStoredEvents never throws and leaves the replay session, the pending timers
\* and the emissions as they are; a default sequence with an element the validation
\* rules reject makes the next replay() without argument throw the validation error
\* and start nothing.
C27_StoredValidatedAtReplay ==
  /\ []((ReplayFromIdle /\ ret.argT = "undefined" /\ SpecInvalidAt(ret.seq) # {}) =>
          (ret.err = "validation" /\ ~replaySession.isReplaying /\ timers = {}))
  /\ [][SetStoredStep =>
          (/\ ret'.err = "none"
           /\ UNCHANGED <<replaySession, timers, nextTimerId, emitted, starts, now>>)]_vars

\* C28: the scheduler is idle only in the idle shape: isReplaying false implies
\* currentIndex 0, startTime null and no pending handle, whether idle was reached by
\* construction, by natural completion or by stopReplay(), from top-level code or from
\* an observer.
C28_IdleShape ==
  ~replaySession.isReplaying => replaySession = IdleSession

\* C29: the pending-handle set is the set of the live timers of the scheduler: every
\* live timer is tracked, no handle of a fired or cancelled timer stays, and no timer is
\* live while isReplaying is false.
C29_HandlesAreLiveTimers ==
  /\ {replaySession.timeoutIds[i] : i \in 1..Len(replaySession.timeoutIds)}
       = {t.id : t \in timers}
  /\ ~replaySession.isReplaying => timers = {}

\* C30: there is at most one replay chain: the pending-handle set never holds more than
\* one handle, and holds exactly one while isReplaying is true and no timer callback is
\* executing.
C30_OneChain ==
  /\ Len(replaySession.timeoutIds) <= 1
  /\ (replaySession.isReplaying /\ ~cb.on) => Len(replaySession.timeoutIds) = 1

\* C31: while a replay is active and no timer callback is executing, currentIndex is
\* the number of events of the current sequence already emitted, at most the length of
\* that sequence; during one replay it never decreases.
C31_CursorCountsEmissions ==
  /\ []((replaySession.isReplaying /\ ~cb.on) =>
          (/\ gen > 0
           /\ replaySession.currentIndex = EmittedOf(gen)
           /\ replaySession.currentIndex <= Len(starts[gen].arr)))
  /\ [][(replaySession.isReplaying /\ replaySession'.isReplaying /\ starts' = starts) =>
          replaySession'.currentIndex >= replaySession.currentIndex]_vars

\* the j-th notification was emitted before any stopReplay() stopped its replay
EmittedUnstopped(j) ==
  LET g == emitted[j].gen
  IN \/ NeverStopped(g)
     \/ Cardinality({i \in 1..j : emitted[i].gen = g}) <= starts[g].stoppedK

\* C32: the scheduler is replaying during every emission of a replay that is not
\* stopped, the last one included: the observers of the notification see isReplaying
\* true until they return, and a replay() one of them makes is rejected as in progress.
C32_ActiveDuringEmission ==
  /\ [](/\ \A j \in 1..Len(emitted) : EmittedUnstopped(j) => emitted[j].active
        /\ (cb.on /\ ~cb.stopped /\ NeverStopped(cb.gen)) => replaySession.isReplaying)
  /\ [][(/\ ret' # ret /\ ret'.op = "replay" /\ ret'.inCb
         /\ ~cb.stopped /\ NeverStopped(cb.gen)) => ret'.err = "inProgress"]_vars

\* the events the sink of the current start() got and the store's validation accepts
AcceptedSunk == SelectSeq(SunkEvents, LAMBDA e : StoreError(e) = "ok")

\* C33: a start() made while not recording empties the store and the session's events,
\* so both hold events of the current session only; stop() keeps them, and they stay
\* as they are until the next start().
C33_FreshSession ==
  /\ [](/\ session.events = AcceptedSunk
        /\ store = LastN(AcceptedSunk, MaxEventsOf(config)))
  /\ [][/\ (~session.isRecording /\ session'.isRecording) =>
              (ret'.op = "start" /\ store' = <<>> /\ session'.events = <<>>)
        /\ ~session'.isRecording =>
              (store' = store /\ session'.events = session.events)]_vars

C33_Witness ==
  /\ ret.op = "stop"
  /\ ~session.isRecording
  /\ session.events # <<>>
  /\ store = LastN(session.events, MaxEventsOf(config))
  /\ lastSignal.kind = "up"
  /\ capture.keyDownTimes = EmptyMap
  /\ now > 0

\* C34: getRecordedKeys() is the last min(n, maxEvents) elements of getSession().events
\* in the same order, n being the length of getSession().events.
C34_StoreIsSessionTail ==
  store = LastN(session.events, MaxEventsOf(config))

C34_Witness ==
  /\ Len(session.events) = 2
  /\ Len(store) = 1
  /\ store[1] = session.events[2]
  /\ session.events[1] # session.events[2]
  /\ ret.op = "keyup"

C36_ReplaysArrayAsOfCall ==
  \A g \in 1..Len(starts) :
    /\ InOrder(g)
    /\ (NeverStopped(g) /\ ChainDone(g)) => Len(EmittedSeq(g)) = Len(starts[g].arr)
    /\ \A k \in 1..Len(EmittedSeq(g)) :
         SpecValid([t |-> "object", k |-> "obj", key |-> EmittedSeq(g)[k].key,
                    code |-> EmittedSeq(g)[k].code, duration |-> EmittedSeq(g)[k].duration,
                    timestamp |-> EmittedSeq(g)[k].timestamp])

\* the identity (normalized key, code) of a key signal
IdentityOf(sig) == <<NormalizeKeyIdentifier(sig.key, sig.code), sig.code>>

\* C37: pairing is by the identity (normalized key, code): the capture holds a
\* down-instant exactly for the pending identities, an up-signal emits exactly when its
\* own identity is pending, and an up-signal of another identity (the same code with
\* another normalized key included) emits nothing and leaves the pending downs as
\* they are.
C37_PairingByIdentity ==
  /\ []({KeyMapId(p[1], p[2]) : p \in pendingDowns} = DOMAIN capture.keyDownTimes)
  /\ [][KeyUpStep =>
          /\ Len(sunk') > Len(sunk) <=> IdentityOf(lastSignal') \in pendingDowns
          /\ IdentityOf(lastSignal') \notin pendingDowns =>
                capture'.keyDownTimes = capture.keyDownTimes]_vars

\* the first rule an element violates in the rule order of the specification (4.3)
SpecRule(e) ==
  IF ~(e.t = "object" /\ e.k = "obj") THEN "object"
  ELSE IF ~(e.key.t = "string" /\ Trim(e.key.s) # <<>>) THEN "key"
  ELSE IF ~(e.code.t = "string" /\ Trim(e.code.s) # <<>>) THEN "code"
  ELSE IF ~(IsFinite(e.duration) /\ e.duration.n >= 0) THEN "duration"
  ELSE IF ~(IsFinite(e.timestamp) /\ e.timestamp.n >= 0) THEN "timestamp"
  ELSE "ok"

\* the field a reported rule is about
RuleField(rule) ==
  IF rule = "emptyKey" THEN "key" ELSE IF rule = "emptyCode" THEN "code" ELSE rule

\* C38: a validation error of replay() reports, for the element it names, the rule that
\* comes first in the order object, key, code, duration, timestamp among the rules the
\* element violates.
C38_FirstRuleReported ==
  (ReplayFromIdle /\ ret.err = "validation") =>
     RuleField(ret.rule) = SpecRule(ret.seq[ret.index + 1])

====
